---- MODULE Spec2Model ----
(***************************************************************************)
(* Model of src/claude-chat-analyzer/main.ts: the transcript parser        *)
(* (parseMarkdown), the content sanitizer (cleanMarkdownContent), the JSON *)
(* importer (parseJsonMessages), the format detector (processInput) and    *)
(* the controller around them.                                             *)
(*                                                                         *)
(* A text is a sequence of characters.  A character is a one-element       *)
(* string, or an atom: a fixed word of the source's patterns ("Human",     *)
(* "<function_calls>", "Bash", ...) that the inputs contain as a whole.    *)
(* Every regular expression of the source is translated character by      *)
(* character over that alphabet.                                           *)
(***************************************************************************)
EXTENDS Integers, Sequences, FiniteSets, TLC

\* ------------------------------------------------------------ alphabet

NL == "\n"
SP == " "
\* The assistant glyph of main.ts:148, two UTF-16 code units in the file.
AGlyph == "a-glyph"
\* The tool-result glyph of main.ts:160.
TGlyph == "t-glyph"
\* One box-drawing character of the class of main.ts:167.
BoxChar == "box"
\* One block-drawing character of the second class of main.ts:167.
BlockChar == "block"
Bold == "**"
\* The three backticks of a code fence (main.ts:276).
Fence == "fence"
AntmlClose == "</invoke>"

\* \s of the regular expressions, String.prototype.trim.
IsSpace(c) == c \in {SP, NL}

\* The first code unit of the character is "<".
StartsWithLt(c) ==
  c \in {"<", "<function_calls>", "</function_calls>", "<function_results>",
         "</function_results>", "<system-reminder>", "</system-reminder>",
         "<invoke>", AntmlClose}

\* Length of a character in UTF-16 code units, for String.prototype.slice.
CodeUnits(c) ==
  CASE c = AGlyph -> 2
    [] c = TGlyph -> 3
    [] c = Bold -> 2
    [] c = Fence -> 3
    [] c \in {"Human", "human", "Bash"} -> 5
    [] c = "User" -> 4
    [] c = "Claude" -> 6
    [] c = "Assistant" -> 9
    [] OTHER -> 1

\* ------------------------------------------------------ string helpers

Min(S) == CHOOSE x \in S : \A y \in S : x <= y
Max(S) == CHOOSE x \in S : \A y \in S : x >= y

SubText(t, a, b) == IF a > b THEN <<>> ELSE SubSeq(t, a, b)

\* text.slice(n), n counted in code units.
RECURSIVE slice(_, _)
slice(t, n) ==
  IF n <= 0 \/ t = <<>> THEN t
  ELSE slice(Tail(t), n - CodeUnits(Head(t)))

\* text.startsWith(p)
startsWith(t, p) == Len(t) >= Len(p) /\ SubSeq(t, 1, Len(p)) = p

\* text.trim()
trim(t) ==
  LET keep == {i \in 1..Len(t) : ~IsSpace(t[i])}
  IN IF keep = {} THEN <<>> ELSE SubSeq(t, Min(keep), Max(keep))

\* text.split('\n'): always at least one line.
RECURSIVE split(_)
split(t) ==
  LET nls == {i \in 1..Len(t) : t[i] = NL}
  IN IF nls = {} THEN <<t>>
     ELSE <<SubText(t, 1, Min(nls) - 1)>> \o split(SubText(t, Min(nls) + 1, Len(t)))

\* lines.join('\n')
RECURSIVE join(_)
join(ls) ==
  IF ls = <<>> THEN <<>>
  ELSE IF Len(ls) = 1 THEN ls[1]
  ELSE ls[1] \o <<NL>> \o join(Tail(ls))

\* ---------------------------------------------- cleanMarkdownContent

\* Length of the opening delimiter of a noise region at t[i], 0 if none.
OpenLen(kind, t, i) ==
  CASE kind = "function_calls" -> IF t[i] = "<function_calls>" THEN 1 ELSE 0
    [] kind = "function_results" -> IF t[i] = "<function_results>" THEN 1 ELSE 0
    [] kind = "antml" -> IF StartsWithLt(t[i]) THEN 1 ELSE 0
    [] kind = "tool_use" ->
         IF t[i] = Fence /\ i < Len(t) /\ t[i + 1] = "tool_use" THEN 2 ELSE 0
    [] kind = "tool_result" ->
         IF t[i] = Fence /\ i < Len(t) /\ t[i + 1] = "tool_result" THEN 2 ELSE 0
    [] kind = "system-reminder" -> IF t[i] = "<system-reminder>" THEN 1 ELSE 0

\* The closing delimiter of a noise region.
IsClose(kind, c) ==
  CASE kind = "function_calls" -> c = "</function_calls>"
    [] kind = "function_results" -> c = "</function_results>"
    [] kind = "antml" -> c = AntmlClose
    [] kind = "tool_use" -> c = Fence
    [] kind = "tool_result" -> c = Fence
    [] kind = "system-reminder" -> c = "</system-reminder>"

\* cleaned.replace(/open[\s\S]*?close/g, '') from position i on: the leftmost
\* opening delimiter that has a closing one after it goes with everything up
\* to the nearest closing delimiter, and the scan resumes after it.
RECURSIVE RemoveFrom(_, _, _)
RemoveFrom(kind, t, i) ==
  IF i > Len(t) THEN <<>>
  ELSE LET lo == OpenLen(kind, t, i)
           closes == {j \in (i + lo)..Len(t) : IsClose(kind, t[j])}
       IN IF lo > 0 /\ closes # {}
          THEN RemoveFrom(kind, t, Min(closes) + 1)
          ELSE <<t[i]>> \o RemoveFrom(kind, t, i + 1)

RemoveRegions(kind, t) == RemoveFrom(kind, t, 1)

ToolNames == {"Bash", "Read"}
FsMcpHead == "filesystem - read (MCP)"
McpHead == "mcp__srv__tool"

\* One of toolPatterns matches the whole line (flags gm, "." stops at "\n").
MatchesToolPattern(k, line) ==
  /\ Len(line) >= 3
  /\ line[2] = "("
  /\ line[Len(line)] = ")"
  /\ CASE k = 1 -> line[1] \in ToolNames
       [] k = 2 -> line[1] = FsMcpHead
       [] k = 3 -> line[1] = McpHead

RECURSIVE BlankLines(_, _)
BlankLines(k, ls) ==
  IF ls = <<>> THEN <<>>
  ELSE <<IF MatchesToolPattern(k, Head(ls)) THEN <<>> ELSE Head(ls)>>
       \o BlankLines(k, Tail(ls))

\* cleaned.replace(toolPatterns[k], '')
RemoveToolLines(k, t) == join(BlankLines(k, split(t)))

\* cleaned.replace(/\n{3,}/g, '\n\n')
RECURSIVE CollapseNewlines(_)
CollapseNewlines(t) ==
  IF t = <<>> THEN <<>>
  ELSE IF Head(t) # NL THEN <<Head(t)>> \o CollapseNewlines(Tail(t))
  ELSE LET others == {i \in 1..Len(t) : t[i] # NL}
           run == IF others = {} THEN Len(t) ELSE Min(others) - 1
       IN (IF run >= 3 THEN <<NL, NL>> ELSE SubSeq(t, 1, run))
          \o CollapseNewlines(SubText(t, run + 1, Len(t)))

cleanMarkdownContent(text) ==
  LET c1 == RemoveRegions("function_calls", text)
      c2 == RemoveRegions("function_results", c1)
      c3 == RemoveRegions("antml", c2)
      c4 == RemoveRegions("tool_use", c3)
      c5 == RemoveRegions("tool_result", c4)
      c6 == RemoveRegions("system-reminder", c5)
      c7 == RemoveToolLines(3, RemoveToolLines(2, RemoveToolLines(1, c6)))
      c8 == CollapseNewlines(c7)
  IN trim(c8)

\* -------------------------------------------------------- parseMarkdown

\* String.prototype.toLowerCase on a role label.
toLowerCase(c) ==
  CASE c \in {"Human", "human"} -> "human"
    [] c \in {"User", "USER"} -> "user"
    [] c = "Assistant" -> "assistant"
    [] c = "Claude" -> "claude"
    [] OTHER -> c

\* (role === 'human' || role === 'user') ? 'human' : 'assistant'
SenderOf(role) == IF role \in {"human", "user"} THEN "human" ELSE "assistant"

\* The index of the first character at or after i that is not \s; Len + 1 if none.
SkipSpace(t, i) ==
  LET rest == {k \in i..Len(t) : ~IsSpace(t[k])}
  IN IF rest = {} THEN Len(t) + 1 ELSE Min(rest)

\* Mutant of PushClean: the message is pushed whatever its text.
PushUnchecked(result, role, cleanContent) ==
  Append(result, [sender |-> role, text |-> cleanContent, timestamp |-> ""])

\* "if (cleanContent)" and
\* result.push({ sender: currentRole, text: cleanContent, timestamp: '' })
PushClean(result, role, cleanContent) ==
  IF cleanContent # <<>>
  THEN Append(result, [sender |-> role, text |-> cleanContent, timestamp |-> ""])
  ELSE result

\* The save of the message in progress, under
\* "if (currentRole && currentContent.length > 0)".
SaveMessage(st) ==
  IF st.role # "none" /\ Len(st.content) > 0
  THEN PushClean(st.result, st.role, cleanMarkdownContent(join(st.content)))
  ELSE st.result

\* line.match(/^> [^>]/)
IsHumanLine(line) ==
  Len(line) >= 3 /\ line[1] = ">" /\ line[2] = SP /\ line[3] # ">"

\* line.startsWith(AGlyph + ' ') || line === AGlyph
IsAssistantLine(line) == startsWith(line, <<AGlyph, SP>>) \/ line = <<AGlyph>>

\* Mutant of IsToolResultLine: the two spaces of the prefix are forgotten.
IsToolResultLineUnindented(line) == startsWith(line, <<TGlyph>>)

\* line.startsWith('  ' + TGlyph)
IsToolResultLine(line) == startsWith(line, <<SP, SP, TGlyph>>)

\* Mutant of IsDecorationLine: the second pattern is missing.
IsDecorationLineBoxOnly(line) == Len(line) >= 1 /\ line[1] = BoxChar

\* line.match(/^[box]+/) || line.match(/^\s*\*\s*[block]+/)
IsDecorationLine(line) ==
  \/ Len(line) >= 1 /\ line[1] = BoxChar
  \/ LET i == SkipSpace(line, 1)
         j == SkipSpace(line, i + 1)
     IN i <= Len(line) /\ line[i] = "*" /\ j <= Len(line) /\ line[j] = BlockChar

\* One iteration of the loop of pattern 1.
Pattern1Line(st, line) ==
  IF IsHumanLine(line)
  THEN [role |-> "human", content |-> <<slice(line, 2)>>, result |-> SaveMessage(st)]
  ELSE IF IsAssistantLine(line)
  THEN [role |-> "assistant", content |-> <<slice(line, 2)>>, result |-> SaveMessage(st)]
  ELSE IF IsToolResultLine(line) THEN st
  ELSE IF st.role # "none"
  THEN IF IsDecorationLine(line) THEN st
       ELSE [st EXCEPT !.content = Append(@, line)]
  ELSE st

RECURSIVE Pattern1Loop(_, _)
Pattern1Loop(st, lines) ==
  IF lines = <<>> THEN st
  ELSE Pattern1Loop(Pattern1Line(st, Head(lines)), Tail(lines))

\* Pattern 1, the loop and the save of the last message.
Pattern1(lines, result) ==
  SaveMessage(Pattern1Loop([role |-> "none", content |-> <<>>, result |-> result],
                           lines))

\* The labels a splitting pattern accepts (flag i).
LabelsOf(kind) ==
  IF kind = "header" THEN {"human", "assistant", "user"}
  ELSE {"human", "assistant", "user", "claude"}

\* /^#{2,3}\s+(Human|Assistant|User)\s*$/gim (kind "header") and
\* /^(Human|Assistant|User|Claude):\s*$/gim (kind "simple") tried at t[i]:
\* whether it matches, the captured label, and the last index it consumes.
\* The trailing \s* is greedy and gives back until "$" holds: at the end of
\* the text or before a "\n".
MatchAt(kind, t, i) ==
  LET none == [ok |-> FALSE, label |-> "", end |-> 0]
      lineStart == i = 1 \/ t[i - 1] = NL
      others == {k \in i..Len(t) : t[k] # "#"}
      hashes == IF others = {} THEN Len(t) - i + 1 ELSE Min(others) - i
      afterHashes == SkipSpace(t, i + hashes)
      labelAt ==
        IF kind = "header"
        THEN IF hashes \in {2, 3} /\ afterHashes > i + hashes THEN afterHashes ELSE 0
        ELSE i
      tailFrom == IF kind = "header" THEN labelAt + 1 ELSE labelAt + 2
      tailEnd == SkipSpace(t, tailFrom) - 1
      nls == {k \in tailFrom..tailEnd : t[k] = NL}
  IN IF ~lineStart \/ labelAt = 0 \/ labelAt > Len(t) THEN none
     ELSE IF toLowerCase(t[labelAt]) \notin LabelsOf(kind) THEN none
     ELSE IF kind = "simple" /\ (labelAt + 1 > Len(t) \/ t[labelAt + 1] # ":") THEN none
     ELSE IF tailEnd = Len(t) THEN [ok |-> TRUE, label |-> t[labelAt], end |-> Len(t)]
     ELSE IF nls = {} THEN none
     ELSE [ok |-> TRUE, label |-> t[labelAt], end |-> Max(nls) - 1]

\* text.split(pattern) with one capture group: the pieces between the
\* matches, each followed by the label its match captured.
RECURSIVE SplitFrom(_, _, _, _)
SplitFrom(kind, t, start, i) ==
  IF i > Len(t) THEN <<SubText(t, start, Len(t))>>
  ELSE LET m == MatchAt(kind, t, i)
       IN IF m.ok
          THEN <<SubText(t, start, i - 1), <<m.label>>>>
               \o SplitFrom(kind, t, m.end + 1, m.end + 1)
          ELSE SplitFrom(kind, t, start, i + 1)

SplitBy(kind, t) == SplitFrom(kind, t, 1, 1)

\* "if (!content) continue" and the push of patterns 2 and 4.
PushPart(result, role, content) ==
  IF content = <<>> THEN result
  ELSE PushClean(result, SenderOf(role), cleanMarkdownContent(content))

\* for (let i = 1; i < parts.length; i += 2) of patterns 2 and 4; parts[i] of
\* the source is parts[i + 1] here.
RECURSIVE PartsLoop(_, _, _)
PartsLoop(parts, i, result) ==
  IF i >= Len(parts) THEN result
  ELSE PartsLoop(parts, i + 2,
                 PushPart(result, toLowerCase(parts[i + 1][1]), trim(parts[i + 2])))

\* line.match(/^>\s*\*\*(Human|Assistant|User|Claude)\*\*:\s*(.*)/i):
\* whether it matches, match[1] and match[2].
QuoteMatch(line) ==
  LET i == SkipSpace(line, 2)
      ok == /\ Len(line) >= 1 /\ line[1] = ">"
            /\ i + 3 <= Len(line)
            /\ line[i] = Bold
            /\ toLowerCase(line[i + 1]) \in LabelsOf("quote")
            /\ line[i + 2] = Bold
            /\ line[i + 3] = ":"
  IN IF ok
     THEN [ok |-> TRUE, role |-> line[i + 1],
           rest |-> SubText(line, SkipSpace(line, i + 4), Len(line))]
     ELSE [ok |-> FALSE, role |-> "", rest |-> <<>>]

\* line.replace(/^>\s?/, '')
StripQuote(line) ==
  IF Len(line) >= 1 /\ line[1] = ">"
  THEN IF Len(line) >= 2 /\ IsSpace(line[2]) THEN SubText(line, 3, Len(line))
       ELSE Tail(line)
  ELSE line

\* One iteration of the loop of pattern 3.
Pattern3Line(st, line) ==
  LET match == QuoteMatch(line)
  IN IF match.ok
     THEN [role |-> SenderOf(toLowerCase(match.role)),
           content |-> IF match.rest # <<>> THEN <<match.rest>> ELSE <<>>,
           result |-> SaveMessage(st)]
     ELSE IF st.role # "none"
     THEN [st EXCEPT !.content = Append(@, StripQuote(line))]
     ELSE st

RECURSIVE Pattern3Loop(_, _)
Pattern3Loop(st, lines) ==
  IF lines = <<>> THEN st
  ELSE Pattern3Loop(Pattern3Line(st, Head(lines)), Tail(lines))

\* Pattern 3, with currentRole and currentContent reset before it.
Pattern3(lines, result) ==
  SaveMessage(Pattern3Loop([role |-> "none", content |-> <<>>, result |-> result],
                           lines))

\* "if (parts.length > 2)" and the loop of patterns 2 and 4.
PartsResult(parts, result) ==
  IF Len(parts) > 2 THEN PartsLoop(parts, 1, result) ELSE result

\* Pattern 2
Pattern2(text, result) == PartsResult(SplitBy("header", text), result)

\* Pattern 4
Pattern4(text, result) == PartsResult(SplitBy("simple", text), result)

\* Mutant of ReturnsAfter: the early returns are missing, every pattern runs.
ReturnsNever(result) == FALSE

\* "if (result.length > 0) return result": whether the function returns here.
ReturnsAfter(result) == Len(result) > 0

\* The one array "result" goes through the four patterns; each pattern that
\* leaves it non-empty returns it.
AfterPattern4(text, result) == result

AfterPattern3(text, result) ==
  IF ReturnsAfter(result) THEN result ELSE AfterPattern4(text, Pattern4(text, result))

AfterPattern2(text, result) ==
  IF ReturnsAfter(result) THEN result
  ELSE AfterPattern3(text, Pattern3(split(text), result))

AfterPattern1(text, result) ==
  IF ReturnsAfter(result) THEN result ELSE AfterPattern2(text, Pattern2(text, result))

parseMarkdown(text) == AfterPattern1(text, Pattern1(split(text), <<>>))

\* ---------------------------------------------------- parseJsonMessages

\* Mutant of BlockTexts: the type of the block is not looked at.
RECURSIVE BlockTextsAnyType(_)
BlockTextsAnyType(blocks) ==
  IF blocks = <<>> THEN <<>>
  ELSE (IF Head(blocks).text # <<>> THEN <<Head(blocks).text>> ELSE <<>>)
       \o BlockTextsAnyType(Tail(blocks))

\* for (const block of msg.content): the texts of the text blocks that have one.
RECURSIVE BlockTexts(_)
BlockTexts(blocks) ==
  IF blocks = <<>> THEN <<>>
  ELSE (IF Head(blocks).type = "text" /\ Head(blocks).text # <<>>
        THEN <<Head(blocks).text>> ELSE <<>>) \o BlockTexts(Tail(blocks))

\* The loop body of parseJsonMessages for one message: the text parts of
\* its text blocks, then its own text, joined and trimmed.
TurnText(msg) ==
  LET textParts == BlockTexts(msg.content)
                   \o (IF msg.text # <<>> THEN <<msg.text>> ELSE <<>>)
  IN trim(join(textParts))

\* "if (text)" and result.push({ sender, text, timestamp: msg.created_at })
PushTurn(result, msg) ==
  LET text == TurnText(msg)
  IN IF text # <<>>
     THEN Append(result, [sender |-> msg.sender, text |-> text,
                          timestamp |-> msg.created_at])
     ELSE result

\* "for (const block of msg.content)" throws a TypeError when the message has
\* no content array.
RECURSIVE JsonLoop(_, _)
JsonLoop(messages, result) ==
  IF messages = <<>> THEN [threw |-> FALSE, result |-> result]
  ELSE IF ~Head(messages).hasContent THEN [threw |-> TRUE, result |-> <<>>]
  ELSE JsonLoop(Tail(messages), PushTurn(result, Head(messages)))

parseJsonMessages(messages) == JsonLoop(messages, <<>>)

\* ------------------------------------------------------------ JSON.parse

Block(type, text) == [type |-> type, text |-> text]
Turn(sender, at, text, content) ==
  [sender |-> sender, created_at |-> at, text |-> text, hasContent |-> TRUE,
   content |-> content]

\* The documents the inputs hold between "{" and "}", each a character of the
\* alphabet: what JSON.parse returns for it.  chat_messages is an array
\* ("array"), a string ("string") or absent ("missing").
JsonDocs ==
  [d \in {"doc-ok", "doc-noise", "doc-nokey", "doc-string", "doc-nocontent",
          "doc-blank"} |->
    CASE d = "doc-ok" ->
           [kind |-> "array",
            chat_messages |->
              <<Turn("human", "t1", <<"h", "i">>, <<>>),
                Turn("assistant", "t2", <<>>, <<Block("text", <<"y", "o">>)>>)>>]
      [] d = "doc-noise" ->
           [kind |-> "array",
            chat_messages |->
              <<Turn("assistant", "t1", <<"Bash", "(", "a", ")">>,
                     <<Block("tool_use", <<>>)>>)>>]
      [] d = "doc-nokey" -> [kind |-> "missing", chat_messages |-> <<>>]
      [] d = "doc-string" -> [kind |-> "string", chat_messages |-> <<>>]
      [] d = "doc-nocontent" ->
           [kind |-> "array",
            chat_messages |->
              <<[sender |-> "human", created_at |-> "t1", text |-> <<"h", "i">>,
                 hasContent |-> FALSE, content |-> <<>>]>>]
      [] d = "doc-blank" ->
           [kind |-> "array",
            chat_messages |-> <<Turn("human", "t1", <<SP>>, <<>>)>>]]

\* JSON.parse(trimmed): the document, or a SyntaxError thrown.
JSONparse(t) ==
  IF Len(t) = 3 /\ t[1] = "{" /\ t[3] = "}" /\ t[2] \in DOMAIN JsonDocs
  THEN [threw |-> FALSE, data |-> JsonDocs[t[2]]]
  ELSE [threw |-> TRUE, data |-> [kind |-> "missing", chat_messages |-> <<>>]]

\* data.chat_messages && Array.isArray(data.chat_messages)
HasChatMessages(data) == data.kind # "missing" /\ data.kind = "array"

\* parsedMessages = parseJsonMessages(data.chat_messages) and what follows
\* it in the try block.
TryImport(imported) ==
  IF imported.threw THEN [kind |-> "threw", messages |-> <<>>]
  ELSE [kind |-> "returned", messages |-> imported.result]

\* The try block after JSON.parse.
TryParsed(parsed) ==
  IF parsed.threw THEN [kind |-> "threw", messages |-> <<>>]
  ELSE IF ~HasChatMessages(parsed.data) THEN [kind |-> "fellthrough", messages |-> <<>>]
  ELSE TryImport(parseJsonMessages(parsed.data.chat_messages))

\* The try block of processInput: it returns from processInput with the
\* imported messages ("returned"), is left without a return ("fellthrough"),
\* or throws ("threw").
TryJson(trimmed) == TryParsed(JSONparse(trimmed))

\* Mutant of CatchJson: no catch, the exception leaves processInput.
CatchNothing(outcome) == outcome

\* catch { /* Not valid JSON, try markdown */ }
CatchJson(outcome) ==
  IF outcome.kind = "threw" THEN [kind |-> "fellthrough", messages |-> <<>>]
  ELSE outcome

\* ------------------------------------------------------------- exporter

UserName == <<"User">>
ClaudeName == <<"Claude">>

\* Mutant of getSenderName: the value is used as typed, without trim().
getSenderNameUntrimmed(sender, value) ==
  IF sender = "human"
  THEN IF value # <<>> THEN value ELSE UserName
  ELSE ClaudeName

\* getSenderName(sender), with usernameInput.value given.
getSenderName(sender, value) ==
  IF sender = "human"
  THEN IF trim(value) # <<>> THEN trim(value) ELSE UserName
  ELSE ClaudeName

\* `> **${name}**: ${msg.text}`
MessageMarkdown(msg, value) ==
  <<">", SP, Bold>> \o getSenderName(msg.sender, value) \o <<Bold, ":", SP>> \o msg.text

\* parsedMessages.map(...).join('\n\n')
RECURSIVE ExportMarkdown(_, _)
ExportMarkdown(msgs, value) ==
  IF msgs = <<>> THEN <<>>
  ELSE IF Len(msgs) = 1 THEN MessageMarkdown(msgs[1], value)
  ELSE MessageMarkdown(msgs[1], value) \o <<NL, NL>> \o ExportMarkdown(Tail(msgs), value)

\* The blocks renderPreview puts in the preview: one per message, with the
\* name shown, the message it was formatted from and the index of its button.
PreviewOf(msgs, value) ==
  [i \in 1..Len(msgs) |->
     [sender |-> msgs[i].sender, name |-> getSenderName(msgs[i].sender, value),
      text |-> msgs[i].text, index |-> i - 1]]

\* ----------------------------------------------------------- controller

VARIABLES
  parsedMessages,  \* let parsedMessages (main.ts:16)
  usernameValue,   \* usernameInput.value
  preview,         \* the blocks of preview.innerHTML
  previewVisible,  \* preview.classList has 'visible'
  stats,           \* stats.innerHTML and its 'visible' class
  status,          \* status.textContent and status.className
  copyDisabled,    \* copyBtn.disabled
  clearDisabled,   \* clearBtn.disabled
  pending,         \* the promises awaited and not yet settled, oldest first
  lastCall,        \* history: the handler that ran last, and its input
  raised,          \* history: an exception left processInput
  latest,          \* history: what the most recent input or clear determined
  fnPc, fnIn, fnOut  \* a function applied on its own: position, input, output

appVars == <<parsedMessages, usernameValue, preview, previewVisible, stats, status,
             copyDisabled, clearDisabled, pending, lastCall, raised, latest>>
fnVars == <<fnPc, fnIn, fnOut>>
vars == <<appVars, fnVars>>

MaxPending == 2

NoStatus == [message |-> "", n |-> 0, type |-> ""]
NoStats == [visible |-> FALSE, count |-> 0, dates |-> FALSE]

\* showStatus(message, type); n is the count the message shows.
showStatus(message, n, type) == status' = [message |-> message, n |-> n, type |-> type]

\* renderPreview()
renderPreview(msgs, value) ==
  /\ preview' = PreviewOf(msgs, value)
  /\ previewVisible' = TRUE

\* main.ts:93-100: the import is kept and processInput returns.
JsonBranch(messages) ==
  /\ parsedMessages' = messages
  /\ renderPreview(messages, usernameValue)
  /\ stats' = [visible |-> TRUE, count |-> Len(messages), dates |-> TRUE]
  /\ copyDisabled' = FALSE
  /\ clearDisabled' = FALSE
  /\ showStatus("Loaded messages from JSON", Len(messages), "success")

\* Mutant of MarkdownBranch: an empty parse is reported before it is assigned,
\* so the previous sequence stays.
MarkdownBranchKeep(parsed) ==
  IF Len(parsed) = 0
  THEN /\ showStatus("Could not parse input", 0, "error")
       /\ UNCHANGED <<parsedMessages, preview, previewVisible, stats, copyDisabled,
                      clearDisabled>>
  ELSE /\ parsedMessages' = parsed
       /\ renderPreview(parsed, usernameValue)
       /\ stats' = [visible |-> TRUE, count |-> Len(parsed), dates |-> FALSE]
       /\ copyDisabled' = FALSE
       /\ clearDisabled' = FALSE
       /\ showStatus("Loaded messages from markdown", Len(parsed), "success")

\* main.ts:108-120: parsedMessages = parseMarkdown(trimmed), given as parsed,
\* and what follows it.
MarkdownBranch(parsed) ==
  /\ parsedMessages' = parsed
  /\ IF Len(parsed) = 0
     THEN /\ showStatus("Could not parse input", 0, "error")
          /\ UNCHANGED <<preview, previewVisible, stats, copyDisabled, clearDisabled>>
     ELSE /\ renderPreview(parsed, usernameValue)
          /\ stats' = [visible |-> TRUE, count |-> Len(parsed), dates |-> FALSE]
          /\ copyDisabled' = FALSE
          /\ clearDisabled' = FALSE
          /\ showStatus("Loaded messages from markdown", Len(parsed), "success")

\* "if (trimmed.startsWith('{'))" with its try and catch.
JsonOutcome(trimmed) ==
  IF startsWith(trimmed, <<"{">>) THEN CatchJson(TryJson(trimmed))
  ELSE [kind |-> "fellthrough", messages |-> <<>>]

\* processInput after the try statement, whose outcome is given.
AfterTry(trimmed, outcome) ==
  CASE outcome.kind = "returned" -> JsonBranch(outcome.messages) /\ UNCHANGED raised
    [] outcome.kind = "fellthrough" ->
         MarkdownBranch(parseMarkdown(trimmed)) /\ UNCHANGED raised
    [] outcome.kind = "threw" ->
         /\ raised' = TRUE
         /\ UNCHANGED <<parsedMessages, preview, previewVisible, stats, status,
                        copyDisabled, clearDisabled>>

processInput(text) ==
  /\ lastCall' = [op |-> "processInput", text |-> text]
  /\ AfterTry(trim(text), JsonOutcome(trim(text)))

\* The texts a file or the clipboard holds.
AppInputs ==
  { <<">", SP, "a", NL, AGlyph, NL, AGlyph, SP, "b">>,
    <<">", SP, SP, "Bash", "(", "a", ")">>,
    <<"a">>,
    <<SP>>,
    <<SP, "{", "doc-ok", "}", NL>>,
    <<"{", "doc-noise", "}">>,
    <<"{", "doc-nokey", "}">>,
    <<"{", "doc-nocontent", "}">>,
    <<"{", NL, ">", SP, "b">> }

UsernamePool == { <<>>, <<SP>>, <<SP, "B", "o", "b">> }
\* The values typed into the username field.
TypedNames == { <<SP>>, <<SP, "B", "o", "b">> }

\* The most recent of the user's inputs and clears: nothing yet ("none"), an
\* input whose read is not settled ("pending"), an input or a clear that has
\* set the sequence to msgs ("done"), an input whose read failed or was
\* blank ("failed").
NoLatest == [state |-> "none", msgs |-> <<>>]

\* The promise at i is the read of the most recent input: only writes were
\* started after it.
IsLatestRead(i) ==
  /\ latest.state = "pending"
  /\ \A j \in (i + 1)..Len(pending) : pending[j].kind = "write"

\* The read at i has settled; msgs is the sequence after it was processed.
LatestSettled(i, state, msgs) ==
  latest' = IF IsLatestRead(i) THEN [state |-> state, msgs |-> msgs] ELSE latest

Remove(q, i) == SubText(q, 1, i - 1) \o SubText(q, i + 1, Len(q))

AppInit ==
  /\ parsedMessages = <<>>
  /\ usernameValue \in TypedNames
  /\ preview = <<>>
  /\ previewVisible = FALSE
  /\ stats = NoStats
  /\ status = NoStatus
  /\ copyDisabled = TRUE
  /\ clearDisabled = TRUE
  /\ pending = <<>>
  /\ lastCall = [op |-> "init", text |-> <<>>]
  /\ raised = FALSE
  /\ latest = NoLatest

\* The 'input' listener of usernameInput (main.ts:28-33).
UsernameInput(value) ==
  /\ usernameValue' = value
  /\ IF Len(parsedMessages) > 0
     THEN renderPreview(parsedMessages, value)
     ELSE UNCHANGED <<preview, previewVisible>>
  /\ lastCall' = [op |-> "usernameInput", text |-> <<>>]
  /\ UNCHANGED <<parsedMessages, stats, status, copyDisabled, clearDisabled, pending,
                 raised, latest>>

\* handleFile(file) up to its await: a drop or a change of the file input.
handleFile(text) ==
  /\ Len(pending) < MaxPending
  /\ pending' = Append(pending, [kind |-> "file", text |-> text])
  /\ latest' = [state |-> "pending", msgs |-> <<>>]
  /\ lastCall' = [op |-> "handleFile", text |-> <<>>]
  /\ UNCHANGED <<parsedMessages, usernameValue, preview, previewVisible, stats, status,
                 copyDisabled, clearDisabled, raised>>

\* file.text() resolves: handleFile goes on with processInput(text).
FileTextResolves(i) ==
  /\ i \in 1..Len(pending)
  /\ pending[i].kind = "file"
  /\ processInput(pending[i].text)
  /\ pending' = Remove(pending, i)
  /\ LatestSettled(i, "done", parsedMessages')
  /\ UNCHANGED usernameValue

\* file.text() rejects: handleFile has no catch, nothing else runs.
FileTextRejects(i) ==
  /\ i \in 1..Len(pending)
  /\ pending[i].kind = "file"
  /\ pending' = Remove(pending, i)
  /\ lastCall' = [op |-> "handleFileRejected", text |-> <<>>]
  /\ LatestSettled(i, "failed", <<>>)
  /\ UNCHANGED <<parsedMessages, usernameValue, preview, previewVisible, stats, status,
                 copyDisabled, clearDisabled, raised>>

\* pasteFromClipboard() up to its await.
pasteFromClipboard ==
  /\ Len(pending) < MaxPending
  /\ pending' = Append(pending, [kind |-> "clipboard", text |-> <<>>])
  /\ latest' = [state |-> "pending", msgs |-> <<>>]
  /\ lastCall' = [op |-> "pasteFromClipboard", text |-> <<>>]
  /\ UNCHANGED <<parsedMessages, usernameValue, preview, previewVisible, stats, status,
                 copyDisabled, clearDisabled, raised>>

\* navigator.clipboard.readText() resolves with text.
ReadTextResolves(i, text) ==
  /\ i \in 1..Len(pending)
  /\ pending[i].kind = "clipboard"
  /\ pending' = Remove(pending, i)
  /\ IF trim(text) = <<>>
     THEN /\ showStatus("Clipboard is empty", 0, "error")
          /\ lastCall' = [op |-> "clipboardEmpty", text |-> <<>>]
          /\ LatestSettled(i, "failed", <<>>)
          /\ UNCHANGED <<parsedMessages, preview, previewVisible, stats, copyDisabled,
                         clearDisabled, raised>>
     ELSE processInput(text) /\ LatestSettled(i, "done", parsedMessages')
  /\ UNCHANGED usernameValue

\* Mutant of ReadTextRejects: the catch also resets the sequence.
ReadTextRejectsResetting(i) ==
  /\ i \in 1..Len(pending)
  /\ pending[i].kind = "clipboard"
  /\ pending' = Remove(pending, i)
  /\ showStatus("Failed to read clipboard", 0, "error")
  /\ lastCall' = [op |-> "clipboardFailed", text |-> <<>>]
  /\ LatestSettled(i, "failed", <<>>)
  /\ parsedMessages' = <<>>
  /\ UNCHANGED <<usernameValue, preview, previewVisible, stats,
                 copyDisabled, clearDisabled, raised>>

\* navigator.clipboard.readText() rejects.
ReadTextRejects(i) ==
  /\ i \in 1..Len(pending)
  /\ pending[i].kind = "clipboard"
  /\ pending' = Remove(pending, i)
  /\ showStatus("Failed to read clipboard", 0, "error")
  /\ lastCall' = [op |-> "clipboardFailed", text |-> <<>>]
  /\ LatestSettled(i, "failed", <<>>)
  /\ UNCHANGED <<parsedMessages, usernameValue, preview, previewVisible, stats,
                 copyDisabled, clearDisabled, raised>>

\* copyAsMarkdown() up to its await, on a click of the enabled copy button.
copyAsMarkdown ==
  /\ ~copyDisabled
  /\ Len(pending) < MaxPending
  /\ pending' = Append(pending, [kind |-> "write", text |-> <<>>])
  /\ lastCall' = [op |-> "copyAsMarkdown", text |-> <<>>]
  /\ UNCHANGED latest
  /\ UNCHANGED <<parsedMessages, usernameValue, preview, previewVisible, stats, status,
                 copyDisabled, clearDisabled, raised>>

\* navigator.clipboard.writeText(markdown) resolves.
WriteTextResolves(i) ==
  /\ i \in 1..Len(pending)
  /\ pending[i].kind = "write"
  /\ pending' = Remove(pending, i)
  /\ showStatus("Copied to clipboard!", 0, "success")
  /\ lastCall' = [op |-> "copied", text |-> <<>>]
  /\ UNCHANGED latest
  /\ UNCHANGED <<parsedMessages, usernameValue, preview, previewVisible, stats,
                 copyDisabled, clearDisabled, raised>>

\* navigator.clipboard.writeText(markdown) rejects.
WriteTextRejects(i) ==
  /\ i \in 1..Len(pending)
  /\ pending[i].kind = "write"
  /\ pending' = Remove(pending, i)
  /\ showStatus("Failed to copy to clipboard", 0, "error")
  /\ lastCall' = [op |-> "copyFailed", text |-> <<>>]
  /\ UNCHANGED latest
  /\ UNCHANGED <<parsedMessages, usernameValue, preview, previewVisible, stats,
                 copyDisabled, clearDisabled, raised>>

\* clearAll(), on a click of the enabled clear button.
clearAll ==
  /\ ~clearDisabled
  /\ parsedMessages' = <<>>
  /\ preview' = <<>>
  /\ previewVisible' = FALSE
  /\ stats' = NoStats
  /\ copyDisabled' = TRUE
  /\ clearDisabled' = TRUE
  /\ status' = NoStatus
  /\ lastCall' = [op |-> "clearAll", text |-> <<>>]
  /\ latest' = [state |-> "done", msgs |-> <<>>]
  /\ UNCHANGED <<usernameValue, pending, raised>>

Init ==
  /\ AppInit
  /\ fnPc = "idle"
  /\ fnIn = <<>>
  /\ fnOut = <<>>

Next ==
  \/ \E value \in TypedNames : UsernameInput(value) /\ UNCHANGED fnVars
  \/ \E text \in AppInputs : handleFile(text) /\ UNCHANGED fnVars
  \/ \E i \in 1..MaxPending : FileTextResolves(i) /\ UNCHANGED fnVars
  \/ \E i \in 1..MaxPending : FileTextRejects(i) /\ UNCHANGED fnVars
  \/ pasteFromClipboard /\ UNCHANGED fnVars
  \/ \E i \in 1..MaxPending, text \in AppInputs : ReadTextResolves(i, text) /\ UNCHANGED fnVars
  \/ \E i \in 1..MaxPending : ReadTextRejects(i) /\ UNCHANGED fnVars
  \/ copyAsMarkdown /\ UNCHANGED fnVars
  \/ \E i \in 1..MaxPending : WriteTextResolves(i) /\ UNCHANGED fnVars
  \/ \E i \in 1..MaxPending : WriteTextRejects(i) /\ UNCHANGED fnVars
  \/ clearAll /\ UNCHANGED fnVars

Spec == Init /\ [][Next]_vars

\* ------------------------------------------- the functions on their own

\* The application's variables, at rest while a function is applied alone.
AppIdle ==
  /\ parsedMessages = <<>>
  /\ usernameValue = <<>>
  /\ preview = <<>>
  /\ previewVisible = FALSE
  /\ stats = NoStats
  /\ status = NoStatus
  /\ copyDisabled = TRUE
  /\ clearDisabled = TRUE
  /\ pending = <<>>
  /\ lastCall = [op |-> "init", text |-> <<>>]
  /\ raised = FALSE
  /\ latest = NoLatest

\* Sequences over S of length at most n.
SeqsUpTo(S, n) == UNION {[1..k -> S] : k \in 0..n}

MaxLines == 4

\* The lines the transcripts given to parseMarkdown are made of.
LinePool ==
  { <<">", SP, "a">>,
    <<AGlyph, SP, "b">>,
    <<SP, SP, TGlyph, SP, "c">>,
    <<BoxChar, BoxChar>>,
    <<SP, "*", SP, BlockChar>>,
    <<"#", "#", SP, "Human">>,
    <<">", Bold, "Claude", Bold, ":", SP, "d">>,
    <<">", SP, Bold, "Human", Bold, ":", SP, "e">>,
    <<"User", ":">>,
    <<"f">>,
    <<>> }

ParseInputs == {join(ls) : ls \in SeqsUpTo(LinePool, MaxLines)}

InitParse ==
  /\ AppIdle
  /\ fnPc = "start"
  /\ fnIn \in ParseInputs
  /\ fnOut = <<>>

\* parseMarkdown(text) is called and returns.
ParseStep ==
  /\ fnPc = "start"
  /\ fnOut' = parseMarkdown(fnIn)
  /\ fnPc' = "done"
  /\ UNCHANGED <<fnIn, appVars>>

SpecParse == InitParse /\ [][ParseStep]_vars

\* A transcript written purely in one convention: 1 session transcript,
\* 2 header, 3 blockquote label, 4 plain label.  A turn is a label and its
\* content lines.
MaxConvTurns == 2

ContentPool == { <<>>, << <<"a">> >>, << <<"b", SP, "c">>, <<"d">> >> }

ConvLabels(conv) ==
  CASE conv = 1 -> {"human", "assistant"}
    [] conv = 2 -> {"Human", "human", "Assistant", "User", "USER"}
    [] OTHER -> {"Human", "human", "Assistant", "User", "USER", "Claude"}

\* A human turn of the session transcript has its content on the marker line
\* ("> " and a character that is not ">"): it is never empty.
ConvTurns(conv) ==
  {turn \in [label : ConvLabels(conv), lines : ContentPool] :
     ~(conv = 1 /\ turn.label = "human" /\ turn.lines = <<>>)}

\* The line that opens a turn, with the content that shares it.
MarkerLine(conv, turn) ==
  LET first == IF turn.lines = <<>> THEN <<>> ELSE turn.lines[1]
  IN CASE conv = 1 ->
            IF turn.label = "human" THEN <<">", SP>> \o first
            ELSE IF first = <<>> THEN <<AGlyph>> ELSE <<AGlyph, SP>> \o first
       [] conv = 2 -> <<"#", "#", SP, turn.label>>
       [] conv = 3 -> <<">", SP, Bold, turn.label, Bold, ":", SP>> \o first
       [] conv = 4 -> <<turn.label, ":">>

TurnLines(conv, turn) ==
  <<MarkerLine(conv, turn)>>
  \o (IF conv \in {1, 3} /\ turn.lines # <<>> THEN Tail(turn.lines) ELSE turn.lines)

RECURSIVE TranscriptLines(_, _)
TranscriptLines(conv, turns) ==
  IF turns = <<>> THEN <<>>
  ELSE TurnLines(conv, Head(turns)) \o TranscriptLines(conv, Tail(turns))

Transcript(conv, turns) == join(TranscriptLines(conv, turns))

ConvInputs ==
  UNION {[conv : {c}, turns : SeqsUpTo(ConvTurns(c), MaxConvTurns)] : c \in 1..4}

InitConv ==
  /\ AppIdle
  /\ fnPc = "start"
  /\ fnIn \in ConvInputs
  /\ fnOut = <<>>

\* parseMarkdown(text) is called with the transcript and returns.
ConvStep ==
  /\ fnPc = "start"
  /\ fnOut' = parseMarkdown(Transcript(fnIn.conv, fnIn.turns))
  /\ fnPc' = "done"
  /\ UNCHANGED <<fnIn, appVars>>

SpecConv == InitConv /\ [][ConvStep]_vars

\* cleanMarkdownContent applied to a text, then to its own output.
MaxCleanLen == 4

CleanAlphabet ==
  {SP, NL, "a", "Bash", "(", ")", "<function_calls>", "</function_calls>"}

InitClean ==
  /\ AppIdle
  /\ fnPc = "start"
  /\ fnIn \in SeqsUpTo(CleanAlphabet, MaxCleanLen)
  /\ fnOut = <<>>

CleanStep ==
  /\ fnPc = "start"
  /\ fnOut' = <<cleanMarkdownContent(fnIn)>>
  /\ fnPc' = "once"
  /\ UNCHANGED <<fnIn, appVars>>

CleanAgainStep ==
  /\ fnPc = "once"
  /\ fnOut' = Append(fnOut, cleanMarkdownContent(fnOut[1]))
  /\ fnPc' = "twice"
  /\ UNCHANGED <<fnIn, appVars>>

SpecClean == InitClean /\ [][CleanStep \/ CleanAgainStep]_vars

\* copyAsMarkdown's text for a Message sequence, parsed again.
MaxMsgs == 3

MessagePool ==
  [sender : {"human", "assistant"}, text : {<<"a">>, <<"b", NL, "c">>},
   timestamp : {""}]

InitExport ==
  /\ AppIdle
  /\ fnPc = "start"
  /\ fnIn \in [msgs : SeqsUpTo(MessagePool, MaxMsgs), value : UsernamePool]
  /\ fnOut = <<>>

ExportStep ==
  /\ fnPc = "start"
  /\ fnOut' = <<ExportMarkdown(fnIn.msgs, fnIn.value)>>
  /\ fnPc' = "exported"
  /\ UNCHANGED <<fnIn, appVars>>

ReparseStep ==
  /\ fnPc = "exported"
  /\ fnOut' = Append(fnOut, parseMarkdown(fnOut[1]))
  /\ fnPc' = "done"
  /\ UNCHANGED <<fnIn, appVars>>

SpecExport == InitExport /\ [][ExportStep \/ ReparseStep]_vars

\* parseJsonMessages applied to a sequence of well-formed turns.
MaxTurns == 3

RawTurnPool ==
  { Turn("human", "t1", <<"h">>, <<>>),
    Turn("assistant", "t2", <<>>, <<Block("text", <<"y">>)>>),
    Turn("assistant", "t3", <<SP, "z", NL>>,
         <<Block("text", <<"x">>), Block("tool_use", <<"u">>), Block("text", <<"y">>)>>),
    Turn("human", "t4", <<"z">>, <<Block("text", <<"x">>), Block("text", <<>>)>>),
    Turn("assistant", "t5", <<>>, <<Block("tool_result", <<"r">>)>>),
    Turn("human", "t6", <<SP>>, <<Block("text", <<NL>>)>>) }

InitJson ==
  /\ AppIdle
  /\ fnPc = "start"
  /\ fnIn \in SeqsUpTo(RawTurnPool, MaxTurns)
  /\ fnOut = <<>>

JsonStep ==
  /\ fnPc = "start"
  /\ fnOut' = parseJsonMessages(fnIn)
  /\ fnPc' = "done"
  /\ UNCHANGED <<fnIn, appVars>>

SpecJson == InitJson /\ [][JsonStep]_vars

\* --------------------------------------------------------------- claims

\* What strategy k alone yields for a text.
Strategy(k, text) ==
  CASE k = 1 -> Pattern1(split(text), <<>>)
    [] k = 2 -> Pattern2(text, <<>>)
    [] k = 3 -> Pattern3(split(text), <<>>)
    [] k = 4 -> Pattern4(text, <<>>)

Yielding(text) == {k \in 1..4 : Strategy(k, text) # <<>>}

\* C1: parseMarkdown returns exactly what the first strategy, in the order
\* session transcript, header, blockquote label, plain label, that yields at
\* least one message yields; strategies that yield nothing add nothing, and
\* the result is empty when none yields.
C1_FirstYieldingStrategy ==
  fnPc = "done" =>
    IF Yielding(fnIn) = {} THEN fnOut = <<>>
    ELSE fnOut = Strategy(Min(Yielding(fnIn)), fnIn)

\* C1's case: the first two strategies yield nothing, the last two both
\* yield, and the third's result is returned.
C1_Witness ==
  /\ fnPc = "done"
  /\ Yielding(fnIn) = {3, 4}
  /\ fnOut = Strategy(3, fnIn)
  /\ fnOut # Strategy(4, fnIn)

\* The message list of a pure transcript: one message per turn that has
\* content, with the sender of the turn's label and the content as text.
RECURSIVE ExpectedMessages(_)
ExpectedMessages(turns) ==
  IF turns = <<>> THEN <<>>
  ELSE (IF Head(turns).lines = <<>> THEN <<>>
        ELSE <<[sender |-> SenderOf(toLowerCase(Head(turns).label)),
                text |-> join(Head(turns).lines), timestamp |-> ""]>>)
       \o ExpectedMessages(Tail(turns))

\* C2: a transcript written purely in one of the four conventions parses to
\* one message per non-empty turn, in order, with the sender of the turn's
\* marker or label and the turn's content, without the marker, as text; so
\* does a blockquote transcript of lines "> **Human**: ...".
C2_PureConventionParses ==
  fnPc = "done" => fnOut = ExpectedMessages(fnIn.turns)

\* The session-transcript scenario: a human line, an assistant line, a
\* tool-result line, an assistant line.
IsMergeScenario(lines) ==
  /\ Len(lines) = 4
  /\ IsHumanLine(lines[1])
  /\ IsAssistantLine(lines[2])
  /\ startsWith(lines[3], <<SP, SP, TGlyph>>)
  /\ IsAssistantLine(lines[4])

\* The line without its two-character marker.
Unmarked(line) == SubText(line, 3, Len(line))

\* C3 as stated: the two assistant lines around a tool-result line are merged
\* into one Assistant message, so the scenario yields two messages.
C3_AssistantLinesMerged ==
  (fnPc = "done" /\ IsMergeScenario(split(fnIn))) =>
    fnOut = <<[sender |-> "human", text |-> Unmarked(split(fnIn)[1]), timestamp |-> ""],
              [sender |-> "assistant",
               text |-> Unmarked(split(fnIn)[2]) \o <<NL>> \o Unmarked(split(fnIn)[4]),
               timestamp |-> ""]>>

\* C3 amended: every assistant-marked line opens a turn of its own, so the
\* scenario yields three messages, Human, Assistant, Assistant, and the
\* tool-result line is in none of them.
C3_AssistantLinesSeparate ==
  (fnPc = "done" /\ IsMergeScenario(split(fnIn))) =>
    fnOut = <<[sender |-> "human", text |-> Unmarked(split(fnIn)[1]), timestamp |-> ""],
              [sender |-> "assistant", text |-> Unmarked(split(fnIn)[2]), timestamp |-> ""],
              [sender |-> "assistant", text |-> Unmarked(split(fnIn)[4]), timestamp |-> ""]>>

C3_Witness ==
  /\ fnPc = "done"
  /\ IsMergeScenario(split(fnIn))
  /\ Len(fnOut) = 3

\* Senders and texts of a message sequence, timestamps left out.
SendersAndTexts(msgs) ==
  [i \in 1..Len(msgs) |-> [sender |-> msgs[i].sender, text |-> msgs[i].text]]

\* C4: the markdown copyAsMarkdown produces for a Message sequence parses back
\* to the same senders and texts.
C4_RoundTrip ==
  fnPc = "done" => SendersAndTexts(fnOut[2]) = SendersAndTexts(fnIn.msgs)

\* C5: cleanMarkdownContent applied to its own output changes nothing.
C5_Idempotent ==
  fnPc = "twice" => fnOut[2] = fnOut[1]

IsTextBlock(block) == block.type = "text"
HasText(block) == block.type = "text" /\ block.text # <<>>
TextsOf(blocks) == [i \in 1..Len(blocks) |-> blocks[i].text]
OwnText(msg) == IF msg.text # <<>> THEN <<msg.text>> ELSE <<>>

\* The messages of the turns whose text, given by TextOf, is not empty.
RECURSIVE ImportWith(_, _)
ImportWith(TextOf(_), turns) ==
  IF turns = <<>> THEN <<>>
  ELSE (IF TextOf(Head(turns)) = <<>> THEN <<>>
        ELSE <<[sender |-> Head(turns).sender, text |-> TextOf(Head(turns)),
                timestamp |-> Head(turns).created_at]>>)
       \o ImportWith(TextOf, Tail(turns))

AllSegmentsText(msg) ==
  trim(join(TextsOf(SelectSeq(msg.content, IsTextBlock)) \o OwnText(msg)))

NonEmptySegmentsText(msg) ==
  trim(join(TextsOf(SelectSeq(msg.content, HasText)) \o OwnText(msg)))

\* C8 as stated: each turn gives at most one message, in order, whose text is
\* all its text-tagged segments and then its own text if non-empty, joined by
\* newlines and trimmed, with the turn's sender and created_at; a turn whose
\* text is empty gives none.
C8_AllTextSegmentsJoined ==
  fnPc = "done" =>
    /\ ~fnOut.threw
    /\ fnOut.result = ImportWith(AllSegmentsText, fnIn)

\* C8 amended: the same, with the text-tagged segments whose text is empty or
\* absent left out of the join, like the segments of the other types.
C8_NonEmptyTextSegmentsJoined ==
  fnPc = "done" =>
    /\ ~fnOut.threw
    /\ fnOut.result = ImportWith(NonEmptySegmentsText, fnIn)

\* C8's case: a turn with a tool_use segment between text segments is
\* imported, and a turn without text is dropped.
C8_Witness ==
  /\ fnPc = "done"
  /\ \E i \in 1..Len(fnIn) :
       \E j \in 1..Len(fnIn[i].content) : fnIn[i].content[j].type = "tool_use"
  /\ fnOut.result # <<>>
  /\ Len(fnOut.result) < Len(fnIn)

\* C6: every message of the current sequence, imported from JSON or parsed
\* from markdown, has a text the sanitizer leaves unchanged.
C6_EveryTextSanitized ==
  \A i \in 1..Len(parsedMessages) :
    cleanMarkdownContent(parsedMessages[i].text) = parsedMessages[i].text

\* The JSON importer can take the input: it starts with "{" once trimmed,
\* deserializes, has an array chat_messages, and the import does not fail.
JsonUsable(text) ==
  /\ startsWith(trim(text), <<"{">>)
  /\ ~JSONparse(trim(text)).threw
  /\ JSONparse(trim(text)).data.kind = "array"
  /\ ~parseJsonMessages(JSONparse(trim(text)).data.chat_messages).threw

JsonImport(text) == parseJsonMessages(JSONparse(trim(text)).data.chat_messages).result

\* C7: processInput never raises; it uses the JSON importer's result exactly
\* when the JSON importer can take the input, and otherwise parses the
\* trimmed input as markdown, with no status about the JSON failure.
C7_JsonOrMarkdown ==
  /\ ~raised
  /\ lastCall.op = "processInput" =>
       IF JsonUsable(lastCall.text)
       THEN /\ status.message = "Loaded messages from JSON"
            /\ parsedMessages = JsonImport(lastCall.text)
       ELSE /\ status.message \in {"Loaded messages from markdown", "Could not parse input"}
            /\ parsedMessages = parseMarkdown(trim(lastCall.text))

\* C7's case: an input that starts with "{" and does not deserialize has been
\* parsed as markdown.
C7_Witness ==
  /\ lastCall.op = "processInput"
  /\ startsWith(trim(lastCall.text), <<"{">>)
  /\ JSONparse(trim(lastCall.text)).threw
  /\ status.message = "Loaded messages from markdown"
  /\ parsedMessages # <<>>

\* C9: every message of the current sequence has a text that is not empty and
\* neither starts nor ends with whitespace, and no handler has raised.
C9_TextsNonEmptyTrimmed ==
  /\ ~raised
  /\ \A i \in 1..Len(parsedMessages) :
       /\ parsedMessages[i].text # <<>>
       /\ ~IsSpace(parsedMessages[i].text[1])
       /\ ~IsSpace(parsedMessages[i].text[Len(parsedMessages[i].text)])

\* C9's case: a transcript with an empty turn between two others has been
\* parsed into the two others.
C9_Witness ==
  /\ lastCall.op = "processInput"
  /\ \E i \in 1..Len(split(lastCall.text)) : split(lastCall.text)[i] = <<AGlyph>>
  /\ Len(parsedMessages) = 2

\* What the input alone parses to.
ParseAlone(text) ==
  IF JsonUsable(text) THEN JsonImport(text) ELSE parseMarkdown(trim(text))

\* C10: after processInput the current sequence is the parse of the new
\* input alone; when the input is unparseable the sequence is empty and the
\* could-not-parse status is shown, and nothing is raised.
C10_SequenceReplaced ==
  lastCall.op = "processInput" =>
    /\ parsedMessages = ParseAlone(lastCall.text)
    /\ (~JsonUsable(lastCall.text) /\ parseMarkdown(trim(lastCall.text)) = <<>>) =>
         /\ parsedMessages = <<>>
         /\ status = [message |-> "Could not parse input", n |-> 0, type |-> "error"]
    /\ ~raised

\* C10's case: an unparseable input has followed a successful one, whose
\* blocks are still in the preview.
C10_Witness ==
  /\ lastCall.op = "processInput"
  /\ preview # <<>>
  /\ parsedMessages = <<>>
  /\ status.message = "Could not parse input"

\* The handlers' failure endings: the clipboard read rejected or gave blank
\* text, or the clipboard write rejected.
ClipboardFailureOps == {"clipboardFailed", "clipboardEmpty", "copyFailed"}

\* C11: a step in which a clipboard read fails or returns blank text, or a
\* clipboard write fails, leaves the current sequence, and everything shown
\* except the status, as it was.
C11_FailureKeepsSequence ==
  [][(lastCall'.op \in ClipboardFailureOps /\ pending' # pending) =>
       /\ parsedMessages' = parsedMessages
       /\ preview' = preview
       /\ stats' = stats
       /\ status'.type = "error"]_vars

\* C11's case: a clipboard failure has just been reported while messages are
\* loaded.
C11_Witness ==
  /\ lastCall.op \in {"clipboardFailed", "clipboardEmpty"}
  /\ status.type = "error"
  /\ Len(parsedMessages) > 0

\* The endings of a failed asynchronous read: file.text() rejected,
\* readText() rejected, or the clipboard text was blank.
ReadFailureOps == {"handleFileRejected", "clipboardFailed", "clipboardEmpty"}

\* C12: when the handler that ran last ended in a failed read of a file or of
\* the clipboard, an error status is shown.
C12_ReadFailureShowsError ==
  lastCall.op \in ReadFailureOps => status.type = "error"

\* A turn of a transcript with content between its marker and the next.
HasContent(turn) == turn.lines # <<>>

\* C13: in each of the four conventions a turn without content gives no
\* message, and the transcript parses to what it parses to without its empty
\* turns: one message per turn that has content.
C13_EmptyTurnOmitted ==
  fnPc = "done" =>
    /\ fnOut = parseMarkdown(Transcript(fnIn.conv, SelectSeq(fnIn.turns, HasContent)))
    /\ Len(fnOut) = Len(SelectSeq(fnIn.turns, HasContent))

\* The name the export shows for a sender: the trimmed display name for a
\* human, "User" when that name is empty or blank, "Claude" for the assistant.
ExpectedName(sender, value) ==
  IF sender = "assistant" THEN <<"Claude">>
  ELSE IF \A i \in 1..Len(value) : IsSpace(value[i]) THEN <<"User">>
  ELSE trim(value)

\* "> **<name>**: <text>"
ExpectedBlock(msg, value) ==
  <<">", SP, "**">> \o ExpectedName(msg.sender, value) \o <<"**", ":", SP>> \o msg.text

\* The blocks of the first n messages, a blank line between consecutive ones.
RECURSIVE ExpectedExport(_, _, _)
ExpectedExport(msgs, value, n) ==
  IF n = 0 THEN <<>>
  ELSE IF n = 1 THEN ExpectedBlock(msgs[1], value)
  ELSE ExpectedExport(msgs, value, n - 1) \o <<NL, NL>> \o ExpectedBlock(msgs[n], value)

\* C14: the markdown copyAsMarkdown builds is the messages in order, each as
\* "> **<name>**: <text>", joined by one blank line, with the name of
\* ExpectedName, for every sequence and every display name.
C14_ExportFormat ==
  fnPc \in {"exported", "done"} =>
    fnOut[1] = ExpectedExport(fnIn.msgs, fnIn.value, Len(fnIn.msgs))

\* C14's case: several messages, one of them human, exported under a blank
\* display name.
C14_Witness ==
  /\ fnPc = "exported"
  /\ Len(fnIn.msgs) >= 2
  /\ fnIn.value = <<SP>>
  /\ \E i \in 1..Len(fnIn.msgs) : fnIn.msgs[i].sender = "human"
  /\ \E i \in 1..Len(fnIn.msgs) : fnIn.msgs[i].sender = "assistant"

\* A tool-result line (two spaces and the tool-result glyph) or a decorative
\* border line (box-drawing characters, or "*" and block characters).
IsNoiseLine(line) ==
  \/ startsWith(line, <<SP, SP, TGlyph>>)
  \/ Len(line) >= 1 /\ line[1] = BoxChar
  \/ \E i \in 1..Len(line) :
       /\ line[i] = "*"
       /\ \A k \in 1..(i - 1) : IsSpace(line[k])
       /\ \E j \in (i + 1)..Len(line) :
            /\ line[j] = BlockChar
            /\ \A k \in (i + 1)..(j - 1) : IsSpace(line[k])

IsTextLine(line) == ~IsNoiseLine(line)

\* C15: when the session-transcript strategy produces the result, the result
\* is that of the input with its tool-result and border lines deleted.
C15_NoiseLinesIgnored ==
  (fnPc = "done" /\ Strategy(1, fnIn) # <<>>) =>
    fnOut = parseMarkdown(join(SelectSeq(split(fnIn), IsTextLine)))

\* C15's case: a transcript with a noise line before its first turn and
\* another inside a turn that goes on after it has been parsed by the
\* session-transcript strategy.
C15_Witness ==
  /\ fnPc = "done"
  /\ Strategy(1, fnIn) # <<>>
  /\ Len(split(fnIn)) = 4
  /\ IsNoiseLine(split(fnIn)[1])
  /\ IsAssistantLine(split(fnIn)[2])
  /\ IsNoiseLine(split(fnIn)[3])
  /\ split(fnIn)[4] = <<"f">>
  /\ Len(fnOut) = 1

\* C16: the preview shows exactly the current sequence, one block per message
\* with the name the export would give it, and the button of block i
\* addresses message i.
C16_PreviewIsCurrent ==
  /\ Len(preview) = Len(parsedMessages)
  /\ \A i \in 1..Len(preview) :
       /\ preview[i].sender = parsedMessages[i].sender
       /\ preview[i].text = parsedMessages[i].text
       /\ preview[i].index = i - 1

\* No read of a file or of the clipboard is awaited.
NoReadPending == \A i \in 1..Len(pending) : pending[i].kind = "write"

\* C17: once every read has settled, the current sequence is the one the most
\* recent input or clear determined, whatever the order in which the reads
\* settled.
C17_LatestActionWins ==
  (NoReadPending /\ latest.state = "done") => parsedMessages = latest.msgs

====
